---- MODULE Spec2Model ----
(***************************************************************************)
(* A model of the Intel 8080 interpreter (struct Cpu) and of the Space     *)
(* Invaders host (struct SpaceInvadersMachine) of src/src/main.rs.         *)
(*                                                                         *)
(* The CPU is a record with the fields of struct Cpu.  Memory is the       *)
(* 65536-byte zero-initialised vector of Memory::with_size, held as the    *)
(* function of its non-zero cells (a cell outside the domain reads 0).     *)
(* Every arm of the opcode match of Cpu::step is an operator Op_xx that    *)
(* returns the CPU after the arm, the cycle count of the arm, whether the  *)
(* arm left the function with `return` (and so skipped the common          *)
(* `self.pc += 1`), and whether one of its u16/u8 additions or             *)
(* subtractions overflowed.  An overflowing `+`/`-` panics in a build with *)
(* overflow checks and wraps in a build without: the build is chosen in    *)
(* the initial state.                                                      *)
(***************************************************************************)
EXTENDS Integers, Sequences, FiniteSets, TLC

\* ------------------------------------------------------------ integers ----

Byte == 0..255

W8(x) == x % 256

W16(x) == x % 65536

\* bit i of x
Bit(x, i) == (x \div (2 ^ i)) % 2

\* x & y, x | y, x ^ y on bytes
And8(x, y) == LET f[i \in 0..8] == IF i = 8 THEN 0
                                   ELSE (Bit(x, i) * Bit(y, i)) * (2 ^ i) + f[i + 1]
              IN f[0]

Or8(x, y) == LET f[i \in 0..8] == IF i = 8 THEN 0
                                  ELSE (IF Bit(x, i) + Bit(y, i) > 0 THEN 2 ^ i ELSE 0) + f[i + 1]
             IN f[0]

Xor8(x, y) == LET f[i \in 0..8] == IF i = 8 THEN 0
                                   ELSE ((Bit(x, i) + Bit(y, i)) % 2) * (2 ^ i) + f[i + 1]
              IN f[0]

\* (hi as u16) << 8 | (lo as u16)
Pair(hi, lo) == hi * 256 + lo

Lo(w) == w % 256

Hi(w) == (w \div 256) % 256

\* ------------------------------------------------------------- memory ----

\* Memory::with_size: every cell 0
Memory_new == << >>

\* Memory::read
read(mem, i) == IF i \in DOMAIN mem THEN mem[i] ELSE 0

\* Memory::write
write(mem, i, d) ==
    IF d = 0
    THEN [x \in (DOMAIN mem) \ {i} |-> mem[x]]
    ELSE [x \in (DOMAIN mem) \cup {i} |-> IF x = i THEN d ELSE mem[x]]

\* fn parity(x, size): the mask is (1u8.wrapping_shl(size)) - 1, and
\* wrapping_shl on a u8 takes the shift amount modulo 8
parity(x, size) ==
    LET mask == W8((2 ^ (size % 8)) - 1 + 256)
        m    == And8(x, mask)
        cnt[i \in 0..8] == IF i = 0 THEN 0 ELSE Bit(m, i - 1) + cnt[i - 1]
        p    == cnt[IF size > 8 THEN 8 ELSE size]
    IN IF p % 2 = 0 THEN 1 ELSE 0

\* ---------------------------------------------------------------- cpu ----

\* ConditionCodes::new
ConditionCodes_new == [z |-> 0, s |-> 0, p |-> 0, cy |-> 0, ac |-> 0, pad |-> 0]

\* Cpu::with_size
Cpu_new ==
    [a |-> 0, b |-> 0, c |-> 0, d |-> 0, e |-> 0, h |-> 0, l |-> 0,
     sp |-> 0, pc |-> 0, mem |-> Memory_new, cc |-> ConditionCodes_new,
     interrupt_enabled |-> FALSE, ports |-> [i \in 0..7 |-> 0]]

\* The result of a piece of code acting on the CPU: the CPU after it, the
\* value it yields, whether it left Cpu::step with `return`, whether an
\* addition or subtraction in it overflowed its type, and whether it fails
\* in every build (an index out of range, panic!).
Res(cpu, cycles, ret, ovf) ==
    [cpu |-> cpu, cycles |-> cycles, ret |-> ret, ovf |-> ovf, fatal |-> FALSE]

\* push with the two bytes stored in the other order
push_swapped(c, hi, lo) ==
    [c EXCEPT !.mem = write(write(c.mem, W16(c.sp - 1 + 65536), lo),
                            W16(c.sp - 2 + 65536), hi),
              !.sp = W16(c.sp - 2 + 65536)]

\* Cpu::push
push(c, hi, lo) ==
    [c EXCEPT !.mem = write(write(c.mem, W16(c.sp - 1 + 65536), hi),
                            W16(c.sp - 2 + 65536), lo),
              !.sp = W16(c.sp - 2 + 65536)]

\* the subtractions of Cpu::push overflow
push_ovf(c) == c.sp < 2

\* Cpu::pop
pop(c) ==
    LET sp2 == W16(c.sp + 2)
    IN [cpu |-> [c EXCEPT !.sp = sp2],
        hi |-> read(c.mem, W16(sp2 - 1 + 65536)),
        lo |-> read(c.mem, W16(sp2 - 2 + 65536))]

\* the byte at pc + k, as `self.mem.read(self.pc + k)` reads it
opnd(c, k) == read(c.mem, W16(c.pc + k))

\* `self.pc + k` or `self.pc += k` overflows
pc_ovf(c, k) == c.pc + k > 65535

\* the flag updates shared by the arithmetic arms: z, s and p from a byte
zsp(cc, x) ==
    [cc EXCEPT !.z = IF x = 0 THEN 1 ELSE 0,
               !.s = IF And8(x, 128) = 128 THEN 1 ELSE 0,
               !.p = parity(x, 8)]

\* ------------------------------------------------- the arms of Cpu::step --

\* 0x00 NOP
Op_NOP(c) == Res(c, 4, FALSE, FALSE)

\* LXI B with the first operand byte in B and the second in C
Op_LXI_B_high_first(c) ==
    Res([c EXCEPT !.b = opnd(c, 1), !.c = opnd(c, 2), !.pc = W16(c.pc + 2)],
        10, FALSE, pc_ovf(c, 2))

\* 0x01 LXI B,word
Op_LXI_B(c) ==
    Res([c EXCEPT !.c = opnd(c, 1), !.b = opnd(c, 2), !.pc = W16(c.pc + 2)],
        10, FALSE, pc_ovf(c, 2))

\* the arm of 0x02 with B as the high byte of the address
Op_STAX_B_high_b(c) ==
    LET addr == Pair(c.b, c.c)
    IN Res([c EXCEPT !.a = read(c.mem, addr)], 7, FALSE, FALSE)

\* 0x02 STAX B
Op_STAX_B(c) ==
    LET addr == Pair(c.c, c.b)
    IN Res([c EXCEPT !.a = read(c.mem, addr)], 7, FALSE, FALSE)

\* the arm of 0x03 without the carry from the low into the high byte
Op_INX_B_low_only(c) == Res([c EXCEPT !.b = W8(c.b + 1)], 5, FALSE, FALSE)

\* 0x03 INX B
Op_INX_B(c) ==
    LET bc == W16(Pair(c.c, c.b) + 1)
    IN Res([c EXCEPT !.b = Lo(bc), !.c = Hi(bc)], 5, FALSE, FALSE)

\* INR B with the carry out of bit 7 stored in CY
Op_INR_B_sets_cy(c) ==
    LET b == W8(c.b + 1)
    IN Res([c EXCEPT !.cc = [zsp(c.cc, b) EXCEPT !.cy = IF c.b + 1 > 255 THEN 1 ELSE 0],
                     !.b = b], 5, FALSE, FALSE)

\* 0x04 INR B
Op_INR_B(c) ==
    LET b == W8(c.b + 1)
    IN Res([c EXCEPT !.cc = zsp(c.cc, b), !.b = b], 5, FALSE, FALSE)

\* DCR B with the borrow stored in CY
Op_DCR_B_borrows(c) ==
    LET b == W8(c.b - 1 + 256)
    IN Res([c EXCEPT !.cc = [zsp(c.cc, b) EXCEPT !.cy = IF c.b = 0 THEN 1 ELSE 0],
                     !.b = b], 5, FALSE, FALSE)

\* 0x05 DCR B
Op_DCR_B(c) ==
    LET b == W8(c.b - 1 + 256)
    IN Res([c EXCEPT !.cc = zsp(c.cc, b), !.b = b], 5, FALSE, FALSE)

\* 0x06 MVI B,D8
Op_MVI_B(c) ==
    Res([c EXCEPT !.b = opnd(c, 1), !.pc = W16(c.pc + 1)], 7, FALSE, pc_ovf(c, 1))

\* 0x09 DAD B
Op_DAD_B(c) ==
    LET hl == Pair(c.h, c.l) + Pair(c.b, c.c)
    IN Res([c EXCEPT !.l = Lo(hl), !.h = Hi(hl),
                     !.cc.cy = IF hl > 65535 THEN 1 ELSE 0], 10, FALSE, FALSE)

\* 0x0a LDAX B
Op_LDAX_B(c) ==
    Res([c EXCEPT !.a = read(c.mem, Pair(c.b, c.c))], 7, FALSE, FALSE)

\* 0x0d DCR C
Op_DCR_C(c) ==
    LET x == W8(c.c - 1 + 256)
    IN Res([c EXCEPT !.cc = zsp(c.cc, x), !.c = x], 5, FALSE, FALSE)

\* 0x0e MVI C,D8
Op_MVI_C(c) ==
    Res([c EXCEPT !.c = opnd(c, 1), !.pc = W16(c.pc + 1)], 7, FALSE, pc_ovf(c, 1))

\* 0x0f RRC
Op_RRC(c) ==
    LET a == (c.a \div 2) + 128 * (c.a % 2)
    IN Res([c EXCEPT !.a = a,
                     !.cc.cy = IF a % 2 = 1 THEN 1 ELSE @], 4, FALSE, FALSE)

\* 0x11 LXI D,D16
Op_LXI_D(c) ==
    Res([c EXCEPT !.d = opnd(c, 2), !.e = opnd(c, 1), !.pc = W16(c.pc + 2)],
        10, FALSE, pc_ovf(c, 2))

\* 0x13 INX D
Op_INX_D(c) ==
    LET de == W16(Pair(c.d, c.e) + 1)
    IN Res([c EXCEPT !.e = Lo(de), !.d = Hi(de)], 5, FALSE, FALSE)

\* 0x18
Op_18(c) == Res(c, 0, FALSE, FALSE)

\* 0x19 DAD D
Op_DAD_D(c) ==
    LET hl == Pair(c.h, c.l) + Pair(c.d, c.e)
    IN Res([c EXCEPT !.l = Lo(hl), !.h = Hi(hl),
                     !.cc.cy = IF hl > 65535 THEN 1 ELSE 0], 10, FALSE, FALSE)

\* 0x1a LDAX D
Op_LDAX_D(c) ==
    Res([c EXCEPT !.a = read(c.mem, Pair(c.d, c.e))], 7, FALSE, FALSE)

\* 0x1b DCX D
Op_DCX_D(c) ==
    LET de == W16(Pair(c.d, c.e) - 1 + 65536)
    IN Res([c EXCEPT !.e = Lo(de), !.d = Hi(de)], 5, FALSE, FALSE)

\* 0x1f RAR
Op_RAR(c) ==
    LET x == c.a
    IN Res([c EXCEPT !.a = W8(c.cc.cy * 128) + (x \div 2),
                     !.cc.cy = IF x % 2 = 1 THEN 1 ELSE @], 4, FALSE, FALSE)

\* 0x21 LXI H,D16
Op_LXI_H(c) ==
    Res([c EXCEPT !.l = opnd(c, 1), !.h = opnd(c, 2), !.pc = W16(c.pc + 2)],
        10, FALSE, pc_ovf(c, 2))

\* 0x23 INX H
Op_INX_H(c) ==
    LET hl == W16(Pair(c.h, c.l) + 1)
    IN Res([c EXCEPT !.l = Lo(hl), !.h = Hi(hl)], 5, FALSE, FALSE)

\* 0x24 INR H
Op_INR_H(c) ==
    LET h == W8(c.h + 1)
    IN Res([c EXCEPT !.cc = zsp(c.cc, h), !.h = h], 5, FALSE, FALSE)

\* 0x26 MVI H,D8
Op_MVI_H(c) ==
    Res([c EXCEPT !.h = opnd(c, 1), !.pc = W16(c.pc + 1)], 7, FALSE, pc_ovf(c, 1))

\* 0x27 DAA
Op_DAA(c) ==
    LET lowbig == And8(c.a, 15) > 9
        a1     == IF lowbig THEN W8(c.a + 9) ELSE c.a
        ovf    == lowbig /\ c.a + 9 > 255
        res    == a1 + 96
    IN IF And8(a1, 240) > 144
       THEN Res([c EXCEPT !.a = W8(res),
                          !.cc = [zsp(c.cc, W8(res)) EXCEPT
                                    !.cy = IF res > 255 THEN 1 ELSE 0]],
                4, FALSE, ovf)
       ELSE Res([c EXCEPT !.a = a1], 4, FALSE, ovf)

\* 0x29 DAD H
Op_DAD_H(c) ==
    LET hl == Pair(c.h, c.l) + Pair(c.h, c.l)
    IN Res([c EXCEPT !.l = Lo(hl), !.h = Hi(hl),
                     !.cc.cy = IF hl > 65535 THEN 1 ELSE 0], 10, FALSE, FALSE)

\* 0x31 LXI SP,D16
Op_LXI_SP(c) ==
    Res([c EXCEPT !.sp = Pair(opnd(c, 2), opnd(c, 1)), !.pc = W16(c.pc + 2)],
        10, FALSE, pc_ovf(c, 2))

\* 0x32 STA addr
Op_STA(c) ==
    LET addr == Pair(opnd(c, 2), opnd(c, 1))
    IN Res([c EXCEPT !.mem = write(c.mem, addr, c.a), !.pc = W16(c.pc + 2)],
           13, FALSE, pc_ovf(c, 2))

\* 0x35 DCR M
Op_DCR_M(c) ==
    LET hl == Pair(c.h, c.l)
        x  == W8(read(c.mem, hl) - 1 + 256)
    IN Res([c EXCEPT !.cc = zsp(c.cc, x), !.mem = write(c.mem, hl, x)],
           10, FALSE, FALSE)

\* 0x36 MVI M,D8
Op_MVI_M(c) ==
    Res([c EXCEPT !.mem = write(c.mem, Pair(c.h, c.l), opnd(c, 1)),
                  !.pc = W16(c.pc + 1)], 10, FALSE, pc_ovf(c, 1))

\* 0x37 STC
Op_STC(c) == Res([c EXCEPT !.cc.cy = 1], 4, FALSE, FALSE)

\* 0x39 DAD SP
Op_DAD_SP(c) ==
    LET sp == c.sp + Pair(c.h, c.l)
    IN Res([c EXCEPT !.sp = W16(sp),
                     !.cc.cy = IF sp > 65535 THEN 1 ELSE 0], 10, FALSE, FALSE)

\* 0x3a LDA addr
Op_LDA(c) ==
    LET addr == Pair(opnd(c, 2), opnd(c, 1))
    IN Res([c EXCEPT !.a = read(c.mem, addr), !.pc = W16(c.pc + 2)],
           13, FALSE, pc_ovf(c, 2))

\* 0x3d DCR A
Op_DCR_A(c) ==
    LET a == W8(c.a - 1 + 256)
    IN Res([c EXCEPT !.cc = zsp(c.cc, a), !.a = a], 5, FALSE, FALSE)

\* 0x3e MVI A,D8
Op_MVI_A(c) ==
    Res([c EXCEPT !.a = opnd(c, 1), !.pc = W16(c.pc + 1)], 7, FALSE, pc_ovf(c, 1))

\* 0x41 .. 0x7e: the MOV arms
Op_MOV_B_C(c) == Res([c EXCEPT !.b = c.c], 5, FALSE, FALSE)

Op_MOV_B_D(c) == Res([c EXCEPT !.b = c.d], 5, FALSE, FALSE)

Op_MOV_B_E(c) == Res([c EXCEPT !.b = c.e], 5, FALSE, FALSE)

Op_MOV_C_L(c) == Res([c EXCEPT !.c = c.l], 5, FALSE, FALSE)

Op_MOV_C_M(c) == Res([c EXCEPT !.c = read(c.mem, Pair(c.h, c.l))], 7, FALSE, FALSE)

Op_MOV_D_M(c) == Res([c EXCEPT !.d = read(c.mem, Pair(c.h, c.l))], 7, FALSE, FALSE)

Op_MOV_D_A(c) == Res([c EXCEPT !.d = c.a], 5, FALSE, FALSE)

Op_MOV_E_M(c) == Res([c EXCEPT !.e = read(c.mem, Pair(c.h, c.l))], 7, FALSE, FALSE)

Op_MOV_E_A(c) == Res([c EXCEPT !.e = c.a], 5, FALSE, FALSE)

Op_MOV_H_M(c) == Res([c EXCEPT !.h = read(c.mem, Pair(c.h, c.l))], 7, FALSE, FALSE)

Op_MOV_H_A(c) == Res([c EXCEPT !.h = c.a], 5, FALSE, FALSE)

Op_MOV_L_A(c) == Res([c EXCEPT !.l = c.a], 5, FALSE, FALSE)

Op_MOV_M_A(c) ==
    Res([c EXCEPT !.mem = write(c.mem, Pair(c.h, c.l), c.a)], 7, FALSE, FALSE)

Op_MOV_A_D(c) == Res([c EXCEPT !.a = c.d], 5, FALSE, FALSE)

Op_MOV_A_E(c) == Res([c EXCEPT !.a = c.e], 5, FALSE, FALSE)

Op_MOV_A_H(c) == Res([c EXCEPT !.a = c.h], 5, FALSE, FALSE)

Op_MOV_A_M(c) == Res([c EXCEPT !.a = read(c.mem, Pair(c.h, c.l))], 7, FALSE, FALSE)

\* an opcode without an arm skipped as if it were NOP
Fatal_skips(c) == [cpu |-> c, cycles |-> 4, ret |-> FALSE, ovf |-> FALSE, fatal |-> FALSE]

\* a failure in every build: panic!, or an index outside ports
Fatal(c) == [cpu |-> c, cycles |-> 0, ret |-> TRUE, ovf |-> FALSE, fatal |-> TRUE]

\* 0x82 ADD D
Op_ADD_D(c) ==
    LET x == c.a + c.d
    IN Res([c EXCEPT !.cc = [zsp(c.cc, W8(x)) EXCEPT
                               !.cy = IF x > 255 THEN 1 ELSE 0],
                     !.a = W8(x),
                     !.pc = W16(c.pc + 1)], 4, FALSE, pc_ovf(c, 1))

\* 0xa7 ANA A
Op_ANA_A(c) ==
    LET a == And8(c.a, c.a)
    IN Res([c EXCEPT !.a = a,
                     !.cc = [zsp(c.cc, a) EXCEPT !.cy = 0, !.ac = 0]],
           4, FALSE, FALSE)

\* 0xaf XRA A
Op_XRA_A(c) ==
    LET a == Xor8(c.a, c.a)
    IN Res([c EXCEPT !.a = a,
                     !.cc = [zsp(c.cc, a) EXCEPT !.cy = 0, !.ac = 0]],
           4, FALSE, FALSE)

\* the body of the conditional returns when taken: PC from the two bytes at
\* SP, SP + 2, no `return`
ret_taken(c, cycles) ==
    LET lo == read(c.mem, c.sp)
        hi == read(c.mem, W16(c.sp + 1))
    IN Res([c EXCEPT !.pc = Pair(hi, lo), !.sp = W16(c.sp + 2)],
           cycles, FALSE, c.sp + 2 > 65535)

\* 0xc0 RNZ
Op_RNZ(c) == IF c.cc.z = 0 THEN ret_taken(c, 11) ELSE Res(c, 5, FALSE, FALSE)

\* 0xc1 POP B
Op_POP_B(c) ==
    Res([c EXCEPT !.c = read(c.mem, c.sp), !.b = read(c.mem, W16(c.sp + 1)),
                  !.sp = W16(c.sp + 2)], 10, FALSE, c.sp + 2 > 65535)

\* the 16-bit operand of a jump or call: `(hi as u16) << 8 | (lo as u16)`
addr16(c) == Pair(opnd(c, 2), opnd(c, 1))

\* 0xc2 JNZ
Op_JNZ(c) ==
    IF c.cc.z = 0
    THEN Res([c EXCEPT !.pc = addr16(c)], 10, TRUE, pc_ovf(c, 2))
    ELSE Res([c EXCEPT !.pc = W16(c.pc + 2)], 10, FALSE, pc_ovf(c, 2))

\* 0xc3 JMP addr
Op_JMP(c) == Res([c EXCEPT !.pc = addr16(c)], 10, TRUE, pc_ovf(c, 2))

\* 0xc5 PUSH B
Op_PUSH_B(c) ==
    Res([c EXCEPT !.mem = write(write(c.mem, W16(c.sp - 1 + 65536), c.b),
                                W16(c.sp - 2 + 65536), c.c),
                  !.sp = W16(c.sp - 2 + 65536)], 11, FALSE, c.sp < 2)

\* 0xc6 ADI D8
Op_ADI(c) ==
    LET x == c.a + opnd(c, 1)
    IN Res([c EXCEPT !.cc = [zsp(c.cc, W8(x)) EXCEPT
                               !.cy = IF x > 255 THEN 1 ELSE 0],
                     !.a = W8(x),
                     !.pc = W16(c.pc + 1)], 7, FALSE, pc_ovf(c, 1))

\* 0xc8 RZ
Op_RZ(c) == IF c.cc.z = 1 THEN ret_taken(c, 11) ELSE Res(c, 5, FALSE, FALSE)

\* RET without its `return`: the increment at the end of step follows
Op_RET_falls_through(c) ==
    LET lo == read(c.mem, c.sp)
        hi == read(c.mem, W16(c.sp + 1))
    IN Res([c EXCEPT !.pc = Pair(hi, lo), !.sp = W16(c.sp + 2)],
           10, FALSE, c.sp + 2 > 65535)

\* 0xc9 RET
Op_RET(c) ==
    LET lo == read(c.mem, c.sp)
        hi == read(c.mem, W16(c.sp + 1))
    IN Res([c EXCEPT !.pc = Pair(hi, lo), !.sp = W16(c.sp + 2)],
           10, TRUE, c.sp + 2 > 65535)

\* 0xca JZ addr
Op_JZ(c) ==
    IF c.cc.z = 1
    THEN Res([c EXCEPT !.pc = addr16(c)], 10, TRUE, pc_ovf(c, 2))
    ELSE Res(c, 10, FALSE, FALSE)

\* CALL with the two bytes of the return address exchanged on the stack
Op_CALL_low_first(c) ==
    LET ret == W16(c.pc + 3)
        lo  == Lo(ret)
        hi  == Hi(ret)
    IN Res([c EXCEPT !.mem = write(write(c.mem, W16(c.sp - 1 + 65536), lo),
                                   W16(c.sp - 2 + 65536), hi),
                     !.sp = W16(c.sp - 2 + 65536),
                     !.pc = addr16(c)],
           17, TRUE, pc_ovf(c, 3) \/ c.sp < 2)

\* 0xcd CALL addr
Op_CALL(c) ==
    LET ret == W16(c.pc + 3)
        lo  == Lo(ret)
        hi  == Hi(ret)
    IN Res([c EXCEPT !.mem = write(write(c.mem, W16(c.sp - 1 + 65536), hi),
                                   W16(c.sp - 2 + 65536), lo),
                     !.sp = W16(c.sp - 2 + 65536),
                     !.pc = addr16(c)],
           17, TRUE, pc_ovf(c, 3) \/ c.sp < 2)

\* 0xd1 POP D
Op_POP_D(c) ==
    Res([c EXCEPT !.e = read(c.mem, c.sp), !.d = read(c.mem, W16(c.sp + 1)),
                  !.sp = W16(c.sp + 2)], 10, FALSE, c.sp + 2 > 65535)

\* 0xd2 JNC addr
Op_JNC(c) ==
    IF c.cc.cy = 0
    THEN Res([c EXCEPT !.pc = addr16(c)], 10, FALSE, pc_ovf(c, 2))
    ELSE Res([c EXCEPT !.pc = W16(c.pc + 2)], 10, FALSE, pc_ovf(c, 2))

\* 0xd3 OUT D8 (the arm of Cpu::step)
Op_OUT(c) ==
    LET port == opnd(c, 1)
    IN IF port > 7 THEN Fatal(c)
       ELSE Res([c EXCEPT !.ports[port] = c.a, !.pc = W16(c.pc + 1)],
                10, FALSE, pc_ovf(c, 1))

\* 0xd5 PUSH D
Op_PUSH_D(c) ==
    Res([c EXCEPT !.mem = write(write(c.mem, W16(c.sp - 1 + 65536), c.d),
                                W16(c.sp - 2 + 65536), c.e),
                  !.sp = W16(c.sp - 2 + 65536)], 11, FALSE, c.sp < 2)

\* 0xda JC addr
Op_JC(c) ==
    IF c.cc.cy = 1
    THEN Res([c EXCEPT !.pc = addr16(c)], 10, FALSE, pc_ovf(c, 2))
    ELSE Res([c EXCEPT !.pc = W16(c.pc + 2)], 10, FALSE, pc_ovf(c, 2))

\* 0xdb IN port (the arm of Cpu::step)
Op_IN(c) ==
    LET port == opnd(c, 1)
    IN IF port > 7 THEN Fatal(c)
       ELSE Res([c EXCEPT !.a = c.ports[port], !.pc = W16(c.pc + 1)],
                10, FALSE, pc_ovf(c, 1))

\* 0xe1 POP H
Op_POP_H(c) ==
    Res([c EXCEPT !.l = read(c.mem, c.sp), !.h = read(c.mem, W16(c.sp + 1)),
                  !.sp = W16(c.sp + 2)], 10, FALSE, c.sp + 2 > 65535)

\* 0xe5 PUSH H
Op_PUSH_H(c) ==
    Res([c EXCEPT !.mem = write(write(c.mem, W16(c.sp - 1 + 65536), c.h),
                                W16(c.sp - 2 + 65536), c.l),
                  !.sp = W16(c.sp - 2 + 65536)], 11, FALSE, c.sp < 2)

\* 0xe6 ANI D8
Op_ANI(c) ==
    LET a == And8(c.a, opnd(c, 1))
    IN Res([c EXCEPT !.a = a,
                     !.cc = [c.cc EXCEPT !.cy = 0, !.ac = 0,
                                         !.z = IF a = 0 THEN 1 ELSE 0,
                                         !.s = IF And8(a, 128) = 128 THEN 1 ELSE 0],
                     !.pc = W16(c.pc + 1)], 7, FALSE, pc_ovf(c, 1))

\* 0xeb XCHG
Op_XCHG(c) ==
    Res([c EXCEPT !.d = c.h, !.e = c.l, !.h = c.d, !.l = c.e], 4, FALSE, FALSE)

\* POP PSW taking AC from bit 3 of the flags byte
Op_POP_PSW_ac_bit3(c) ==
    LET x == read(c.mem, c.sp)
    IN Res([c EXCEPT !.cc = [c.cc EXCEPT !.cy = Bit(x, 0), !.p = Bit(x, 2),
                                         !.ac = Bit(x, 3), !.z = Bit(x, 6),
                                         !.s = Bit(x, 7)],
                     !.a = read(c.mem, W16(c.sp + 1)),
                     !.sp = W16(c.sp + 2)], 10, FALSE, c.sp + 2 > 65535)

\* 0xf1 POP PSW
Op_POP_PSW(c) ==
    LET x == read(c.mem, c.sp)
    IN Res([c EXCEPT !.cc = [c.cc EXCEPT !.cy = Bit(x, 0), !.p = Bit(x, 2),
                                         !.ac = Bit(x, 4), !.z = Bit(x, 6),
                                         !.s = Bit(x, 7)],
                     !.a = read(c.mem, W16(c.sp + 1)),
                     !.sp = W16(c.sp + 2)], 10, FALSE, c.sp + 2 > 65535)

\* PUSH PSW without the line of AC
Op_PUSH_PSW_drops_ac(c) ==
    LET psw == Or8(Or8(Or8(Or8(2, c.cc.cy), W8(c.cc.p * 4)), W8(c.cc.z * 64)),
                   W8(c.cc.s * 128))
    IN Res([c EXCEPT !.mem = write(write(c.mem, W16(c.sp - 1 + 65536), c.a),
                                   W16(c.sp - 2 + 65536), psw),
                     !.sp = W16(c.sp - 2 + 65536)], 11, FALSE, c.sp < 2)

\* 0xf5 PUSH PSW
Op_PUSH_PSW(c) ==
    LET psw == Or8(Or8(Or8(Or8(Or8(2, c.cc.cy), W8(c.cc.p * 4)), W8(c.cc.ac * 16)),
                       W8(c.cc.z * 64)), W8(c.cc.s * 128))
    IN Res([c EXCEPT !.mem = write(write(c.mem, W16(c.sp - 1 + 65536), c.a),
                                   W16(c.sp - 2 + 65536), psw),
                     !.sp = W16(c.sp - 2 + 65536)], 11, FALSE, c.sp < 2)

\* 0xfb EI
Op_EI(c) == Res([c EXCEPT !.interrupt_enabled = TRUE], 4, FALSE, FALSE)

\* 0xfe CPI D8
Op_CPI(c) ==
    LET x == opnd(c, 1)
        y == W8(c.a - x + 256)
    IN Res([c EXCEPT !.cc = [c.cc EXCEPT !.z = IF y = 0 THEN 1 ELSE 0,
                                         !.s = IF And8(y, 8) = 8 THEN 1 ELSE 0,
                                         !.p = parity(x, 8),
                                         !.cy = IF c.a < x THEN 1 ELSE 0],
                     !.pc = W16(c.pc + 1)], 7, FALSE, pc_ovf(c, 1))

\* the opcode match of Cpu::step; the last arm is panic!("Unimplemented Op code")
arm(c, op) ==
    CASE op = 0 -> Op_NOP(c)     [] op = 1 -> Op_LXI_B(c)   [] op = 2 -> Op_STAX_B(c)
      [] op = 3 -> Op_INX_B(c)   [] op = 4 -> Op_INR_B(c)   [] op = 5 -> Op_DCR_B(c)
      [] op = 6 -> Op_MVI_B(c)   [] op = 9 -> Op_DAD_B(c)   [] op = 10 -> Op_LDAX_B(c)
      [] op = 13 -> Op_DCR_C(c)  [] op = 14 -> Op_MVI_C(c)  [] op = 15 -> Op_RRC(c)
      [] op = 17 -> Op_LXI_D(c)  [] op = 19 -> Op_INX_D(c)  [] op = 24 -> Op_18(c)
      [] op = 25 -> Op_DAD_D(c)  [] op = 26 -> Op_LDAX_D(c) [] op = 27 -> Op_DCX_D(c)
      [] op = 31 -> Op_RAR(c)    [] op = 33 -> Op_LXI_H(c)  [] op = 35 -> Op_INX_H(c)
      [] op = 36 -> Op_INR_H(c)  [] op = 38 -> Op_MVI_H(c)  [] op = 39 -> Op_DAA(c)
      [] op = 41 -> Op_DAD_H(c)  [] op = 49 -> Op_LXI_SP(c) [] op = 50 -> Op_STA(c)
      [] op = 53 -> Op_DCR_M(c)  [] op = 54 -> Op_MVI_M(c)  [] op = 55 -> Op_STC(c)
      [] op = 57 -> Op_DAD_SP(c) [] op = 58 -> Op_LDA(c)    [] op = 61 -> Op_DCR_A(c)
      [] op = 62 -> Op_MVI_A(c)
      [] op = 65 -> Op_MOV_B_C(c) [] op = 66 -> Op_MOV_B_D(c) [] op = 67 -> Op_MOV_B_E(c)
      [] op = 77 -> Op_MOV_C_L(c) [] op = 78 -> Op_MOV_C_M(c) [] op = 86 -> Op_MOV_D_M(c)
      [] op = 87 -> Op_MOV_D_A(c) [] op = 94 -> Op_MOV_E_M(c) [] op = 95 -> Op_MOV_E_A(c)
      [] op = 102 -> Op_MOV_H_M(c) [] op = 103 -> Op_MOV_H_A(c) [] op = 111 -> Op_MOV_L_A(c)
      [] op = 119 -> Op_MOV_M_A(c) [] op = 122 -> Op_MOV_A_D(c) [] op = 123 -> Op_MOV_A_E(c)
      [] op = 124 -> Op_MOV_A_H(c) [] op = 126 -> Op_MOV_A_M(c)
      [] op = 130 -> Op_ADD_D(c) [] op = 167 -> Op_ANA_A(c) [] op = 175 -> Op_XRA_A(c)
      [] op = 192 -> Op_RNZ(c)   [] op = 193 -> Op_POP_B(c) [] op = 194 -> Op_JNZ(c)
      [] op = 195 -> Op_JMP(c)   [] op = 197 -> Op_PUSH_B(c) [] op = 198 -> Op_ADI(c)
      [] op = 200 -> Op_RZ(c)    [] op = 201 -> Op_RET(c)   [] op = 202 -> Op_JZ(c)
      [] op = 205 -> Op_CALL(c)  [] op = 209 -> Op_POP_D(c) [] op = 210 -> Op_JNC(c)
      [] op = 211 -> Op_OUT(c)   [] op = 213 -> Op_PUSH_D(c) [] op = 218 -> Op_JC(c)
      [] op = 219 -> Op_IN(c)    [] op = 225 -> Op_POP_H(c) [] op = 229 -> Op_PUSH_H(c)
      [] op = 230 -> Op_ANI(c)   [] op = 235 -> Op_XCHG(c)  [] op = 241 -> Op_POP_PSW(c)
      [] op = 245 -> Op_PUSH_PSW(c) [] op = 251 -> Op_EI(c) [] op = 254 -> Op_CPI(c)
      [] OTHER -> Fatal(c)

\* Cpu::step: the arm of the opcode at PC, then `self.pc += 1` unless the
\* arm returned
Cpu_step(c) ==
    LET r == arm(c, read(c.mem, c.pc))
    IN IF r.ret THEN r
       ELSE [r EXCEPT !.cpu.pc = W16(r.cpu.pc + 1),
                      !.ovf = r.ovf \/ r.cpu.pc + 1 > 65535]

\* --------------------------------------------------------------- host ----

\* `value >> n` on a u16
Shr16(value, n) == value \div (2 ^ n)

\* the shift register read without the offset: its high byte
shift_read_high(sx, sy, so) == sy

\* IN 3 of SpaceInvadersMachine::step:
\* `((value >> (8 - self.shift_offset)) & 0xff) as u8`, value shifty:shiftx
shift_read(sx, sy, so) == And8(Shr16(Pair(sy, sx), 8 - so) % 256, 255)

\* the shift offset keeping the whole byte written to port 2
shift_offset_unmasked(value) == value

\* OUT 2 of SpaceInvadersMachine::step: `self.shift_offset = value & 0x7`
shift_offset_of(value) == And8(value, 7)

\* SpaceInvadersMachine::step: OUT and IN are handled by the host, every
\* other opcode by Cpu::step.  The result carries the shift register too.
Machine_step(c, sx, sy, so) ==
    LET op   == read(c.mem, c.pc)
        port == opnd(c, 1)
        keep(r) == [cpu |-> r.cpu, cycles |-> r.cycles, ovf |-> r.ovf,
                    fatal |-> r.fatal,
                    shiftx |-> sx, shifty |-> sy, shift_offset |-> so]
    IN CASE op = 211 ->
              IF port > 7 THEN keep(Fatal(c))
              ELSE [cpu |-> [c EXCEPT !.ports[port] = c.a, !.pc = W16(c.pc + 2)],
                    cycles |-> 10, ovf |-> pc_ovf(c, 2), fatal |-> FALSE,
                    shiftx |-> IF port = 4 THEN c.a ELSE sx,
                    shifty |-> IF port = 4 THEN sx ELSE sy,
                    shift_offset |-> IF port = 2 THEN shift_offset_of(c.a) ELSE so]
         [] op = 219 ->
              LET a == CASE port = 0 -> 1
                         [] port = 1 -> 0
                         [] port = 3 -> shift_read(sx, sy, so)
                         [] OTHER -> c.a
              IN [cpu |-> [c EXCEPT !.a = a, !.pc = W16(c.pc + 2)],
                  cycles |-> 10, ovf |-> pc_ovf(c, 2), fatal |-> FALSE,
                  shiftx |-> sx, shifty |-> sy, shift_offset |-> so]
         [] OTHER -> keep(Cpu_step(c))

\* interrupt pushing the address after PC
interrupt_pushes_next(c, int) ==
    LET hi == Hi(W16(c.pc + 1))
        lo == Lo(W16(c.pc + 1))
    IN [push(c, hi, lo) EXCEPT !.pc = W16(8 * int), !.interrupt_enabled = FALSE]

\* interrupt without the last assignment: the latch stays on
interrupt_keeps_latch(c, int) ==
    [push(c, Hi(c.pc), Lo(c.pc)) EXCEPT !.pc = W16(8 * int)]

\* SpaceInvadersMachine::interrupt
interrupt(c, int) ==
    LET hi == Hi(c.pc)
        lo == Lo(c.pc)
    IN [push(c, hi, lo) EXCEPT !.pc = W16(8 * int), !.interrupt_enabled = FALSE]

\* SpaceInvadersMachine::new: the CPU of Cpu::with_size with the ROM image
\* written from address 0
Machine_new_cpu(data) ==
    [Cpu_new EXCEPT !.mem = [x \in {k - 1 : k \in {n \in 1..Len(data) : data[n] # 0}}
                               |-> data[x + 1]]]

\* const WIDTH, const HEIGHT
WIDTH == 224

HEIGHT == 256

\* the pixel taken from a video memory laid out row by row
draw_pixel_by_rows(mem, x, y) ==
    LET offset == (y * (WIDTH \div 8)) + (x \div 8)
        byte   == read(mem, W16(9216 + W16(offset)))
        p      == x % 8
    IN IF And8(byte, W8(2 ^ p)) # 0 THEN <<255, 255, 255, 255>>
       ELSE <<0, 0, 0, 255>>

\* the tuple draw pushes for the pixel in column x of row y
draw_pixel(mem, x, y) ==
    LET offset == (x * (HEIGHT \div 8)) + (y \div 8)
        byte   == read(mem, W16(9216 + W16(offset)))
        p      == y % 8
    IN IF And8(byte, W8(2 ^ p)) # 0 THEN <<255, 255, 255, 255>>
       ELSE <<0, 0, 0, 255>>

\* SpaceInvadersMachine::draw: HEIGHT rows of WIDTH pixels each go to the
\* texture; the texture is kept as the set of its pixels <<x, y>> that are
\* (0xff, 0xff, 0xff, 0xff), every other one being (0, 0, 0, 0xff)
draw(mem) ==
    {px \in (0..(WIDTH - 1)) \X (0..(HEIGHT - 1)) :
        draw_pixel(mem, px[1], px[2]) = <<255, 255, 255, 255>>}

\* ------------------------------------------------------------ run loop ----

\* ((1.0f64 / 60.0f64) * 1_000_000_000.0) as u64
sixtieth_of_second_ns == 16666666

\* ((1.0 / (self.cpu.speed as f64)) * 1_000_000_000.0) as u32, speed 2_000_000
ns_per_cycle == 500

\* the window events the loop tells apart; every other event is "Other"
Events ==
    {[kind |-> "Closed", state |-> "None", key |-> "None"],
     [kind |-> "Other", state |-> "None", key |-> "None"]}
    \cup [kind : {"KeyboardInput"}, state : {"Pressed", "Released"},
          key : {"Escape", "Right", "Left", "C", "Up"}]

\* the match with an arm of Escape that leaves the loop on a release too
handle_event_any_escape(p1, ev) ==
    IF ev.kind = "KeyboardInput" /\ ev.key = "Escape" THEN [p1 |-> p1, brk |-> TRUE]
    ELSE [p1 |-> p1, brk |-> ev.kind = "Closed"]

\* the match of one polled event: the new ports[1], and whether the loop is left
handle_event(p1, ev) ==
    CASE ev.kind = "Closed" -> [p1 |-> p1, brk |-> TRUE]
      [] ev.kind = "KeyboardInput" /\ ev.key = "Escape" ->
            [p1 |-> p1, brk |-> ev.state = "Pressed"]
      [] ev.kind = "KeyboardInput" /\ ev.key = "Right" ->
            [p1 |-> IF ev.state = "Pressed" THEN Or8(p1, 32) ELSE And8(p1, 255 - 32),
             brk |-> FALSE]
      [] ev.kind = "KeyboardInput" /\ ev.key = "Left" ->
            [p1 |-> IF ev.state = "Pressed" THEN Or8(p1, 64) ELSE And8(p1, 255 - 64),
             brk |-> FALSE]
      [] ev.kind = "KeyboardInput" /\ ev.key = "C" ->
            [p1 |-> IF ev.state = "Pressed" THEN Or8(p1, 1) ELSE And8(p1, 255 - 1),
             brk |-> FALSE]
      [] OTHER -> [p1 |-> p1, brk |-> FALSE]

\* `for event in self.window.poll_events()`: the events in order, up to a break
RECURSIVE poll_events(_, _)
poll_events(p1, evs) ==
    IF evs = << >> THEN [p1 |-> p1, brk |-> FALSE]
    ELSE LET r == handle_event(p1, Head(evs))
         IN IF r.brk THEN r ELSE poll_events(r.p1, Tail(evs))

\* ------------------------------------------------------------- bounds ----

\* simulated time up to which the loop is followed (two frames and a little)
MaxTime == 33500000

\* real time up to which the clock is followed
MaxRealTime == 16666666

\* events drained by one poll
MaxEvents == 1

\* steps of a CPU set up directly, as the tests set it up
MaxSteps == 2

\* ---------------------------------------------------------------- state --

VARIABLES
    cpu,                     \* SpaceInvadersMachine.cpu (or the Cpu of a test)
    time,                    \* SpaceInvadersMachine.time
    shiftx, shifty, shift_offset,
    i,                       \* locals of run
    last_interrupt_time_ns,
    next_int,
    current_real_time,
    last_real_time,
    at,                      \* where run is: "step", "irq", "poll"; "test" in a test
    status,                  \* "running", "exited" (break 'main), "panicked"
    overflow_checks,         \* whether the build panics on integer overflow:
                             \* "on", "off", "unknown" until the first overflow
    frames,                  \* calls of draw so far
    vectors,                 \* history: the vectors of the interrupts delivered
    cpu0,                    \* history: the CPU at the start
    prev,                    \* history: the CPU before the last operation
    last,                    \* history: the last operation
    before,                  \* history: the operation before the last one
    written,                 \* history: the values the host's OUT wrote to
                             \* ports 2 and 4
    interrupted,             \* history: PC and SP when the last interrupt was
                             \* delivered, and the two bytes it left at SP-1
                             \* and SP-2
    screen,                  \* the texture draw wrote: its opaque white pixels
    polled                   \* history: the iterations of run that reached the
                             \* poll (n), the real time since the previous
                             \* drain at the last of them (since), whether the
                             \* events it drained held a close event or a
                             \* press of Escape (quit)

vars == <<cpu, time, shiftx, shifty, shift_offset, i, last_interrupt_time_ns,
          next_int, current_real_time, last_real_time, at, status,
          overflow_checks, frames, vectors, cpu0, prev, last, before, written,
          polled, screen, interrupted>>

\* a ROM image with the given cells, 0 elsewhere
Image(n, cells) == [k \in 1..n |-> IF (k - 1) \in DOMAIN cells THEN cells[k - 1] ELSE 0]

\* 0x0000: JMP 0x0140
\* 0x0010: EI; RET                        (the handler of vector 2)
\* 0x0020: RET                            (S)
\* 0x0140: LXI SP,0x2400; MVI B,224
\* 0x0145: CALL S (5 times); DCR B; JNZ 0x0145     (a sixtieth of a second)
\* 0x0158: EI
\* 0x0159: CALL S; JMP 0x0159
RomFrames ==
    Image(351,
              (0 :> 195) @@ (1 :> 64) @@ (2 :> 1) @@ (16 :> 251) @@ (17 :> 201) @@
              (32 :> 201) @@ (320 :> 49) @@ (321 :> 0) @@ (322 :> 36) @@ (323 :> 6) @@
              (324 :> 224) @@ (325 :> 205) @@ (326 :> 32) @@ (327 :> 0) @@
              (328 :> 205) @@ (329 :> 32) @@ (330 :> 0) @@ (331 :> 205) @@
              (332 :> 32) @@ (333 :> 0) @@ (334 :> 205) @@ (335 :> 32) @@ (336 :> 0) @@
              (337 :> 205) @@ (338 :> 32) @@ (339 :> 0) @@ (340 :> 5) @@
              (341 :> 194) @@ (342 :> 69) @@ (343 :> 1) @@ (344 :> 251) @@
              (345 :> 205) @@ (346 :> 32) @@ (347 :> 0) @@ (348 :> 195) @@
              (349 :> 89) @@ (350 :> 1))

\* 0x0000: MVI A,v1; OUT 4; MVI A,v2; OUT 4; MVI A,k; OUT 2; IN 3
\* 0x000e: OUT 4; IN 3; OUT 7; MVI A,0x55; IN 7; IN 1; HLT
RomPorts(v1, v2, k) ==
    Image(27,
              (0 :> 62) @@ (1 :> v1) @@ (2 :> 211) @@ (3 :> 4) @@ (4 :> 62) @@
              (5 :> v2) @@ (6 :> 211) @@ (7 :> 4) @@ (8 :> 62) @@ (9 :> k) @@
              (10 :> 211) @@ (11 :> 2) @@ (12 :> 219) @@ (13 :> 3) @@
              (14 :> 211) @@ (15 :> 4) @@ (16 :> 219) @@ (17 :> 3) @@
              (18 :> 211) @@ (19 :> 7) @@ (20 :> 62) @@ (21 :> 85) @@
              (22 :> 219) @@ (23 :> 7) @@ (24 :> 219) @@ (25 :> 1) @@
              (26 :> 118))

\* 0x0000: CALL 0x0005 with the SP of the entry of run; 0x0005: RET; 0x0003: HLT
RomCall == Image(6, (0 :> 205) @@ (1 :> 5) @@ (2 :> 0) @@ (3 :> 118) @@ (5 :> 201))

Roms ==
    {RomFrames, RomCall}
    \cup {RomPorts(v[1], v[2], v[3]) : v \in {<<171, 205, 0>>, <<171, 205, 11>>,
                                                <<1, 128, 7>>}}

\* the record of an operation: what it was, the opcode of a step, the vector
\* of an interrupt, whether it completed, the cycles a step returned
Did(kind, op, int, done, cycles) ==
    [kind |-> kind, op |-> op, int |-> int, done |-> done, cycles |-> cycles]

\* the values the host's OUT has written so far, after a step on c: the last
\* one to port 2, the last one to port 4 and the one to port 4 before it
note_out(w, c) ==
    IF read(c.mem, c.pc) # 211 THEN w
    ELSE IF opnd(c, 1) = 2 THEN [w EXCEPT !.p2 = c.a]
    ELSE IF opnd(c, 1) = 4 THEN [w EXCEPT !.p4b = w.p4, !.p4 = c.a]
    ELSE w

NoOp == [kind |-> "none", op |-> 0, int |-> 0, done |-> FALSE, cycles |-> 0]

NoPoll == [n |-> 0, since |-> 0, quit |-> FALSE]

\* what is kept of an interrupt that took the CPU c to d
note_interrupt(c, d) ==
    [pc |-> c.pc, sp |-> c.sp,
     hi |-> read(d.mem, W16(c.sp + 65535)), lo |-> read(d.mem, W16(c.sp + 65534))]

\* SpaceInvadersMachine::new(data), then the entry of run
Init ==
    /\ \E data \in Roms : cpu = Machine_new_cpu(data)
    /\ overflow_checks = "unknown"
    /\ time = 0
    /\ shiftx = 0 /\ shifty = 0 /\ shift_offset = 0
    /\ i = 0
    /\ last_interrupt_time_ns = 0
    /\ next_int = 2
    /\ current_real_time = 0
    /\ last_real_time = 0
    /\ at = "step"
    /\ status = "running"
    /\ frames = 0
    /\ vectors = << >>
    /\ cpu0 = cpu
    /\ prev = cpu
    /\ last = NoOp
    /\ before = NoOp
    /\ written = [p2 |-> 0, p4 |-> 0, p4b |-> 0]
    /\ polled = NoPoll
    /\ screen = {}
    /\ interrupted = [pc |-> 0, sp |-> 0, hi |-> 0, lo |-> 0]

\* the builds in which a piece of code that overflowed (ovf) can be running:
\* the build is fixed, and shows itself at the first overflow
builds(ovf) ==
    IF ovf /\ overflow_checks = "unknown" THEN {"on", "off"} ELSE {overflow_checks}

\* run, first part of an iteration: read the real clock, step, add the
\* cycles to the simulated time
RunStep ==
    /\ status = "running" /\ at = "step"
    /\ time < MaxTime
    /\ \E dt \in {0, sixtieth_of_second_ns} :
          /\ current_real_time + dt <= MaxRealTime
          /\ current_real_time' = current_real_time + dt
    /\ LET r == Machine_step(cpu, shiftx, shifty, shift_offset)
       IN /\ prev' = cpu
          /\ before' = last
          /\ \E oc \in builds(r.ovf) :
               /\ overflow_checks' = oc
               /\ IF r.fatal \/ (r.ovf /\ oc = "on")
                  THEN /\ status' = "panicked"
                       /\ last' = Did("step", read(cpu.mem, cpu.pc), 0, FALSE, 0)
                       /\ UNCHANGED <<cpu, time, shiftx, shifty, shift_offset, i, at,
                                      written>>
                  ELSE /\ cpu' = r.cpu
                       /\ shiftx' = r.shiftx
                       /\ shifty' = r.shifty
                       /\ shift_offset' = r.shift_offset
                       /\ time' = time + r.cycles * ns_per_cycle
                       /\ i' = i + 1
                       /\ at' = "irq"
                       /\ status' = status
                       /\ written' = note_out(written, cpu)
                       /\ last' = Did("step", read(cpu.mem, cpu.pc), 0, TRUE, r.cycles)
    /\ UNCHANGED <<last_interrupt_time_ns, next_int, last_real_time, frames,
                   vectors, cpu0, polled, screen, interrupted>>

\* the condition of the interrupt in run
interrupt_due(c, t, last_t) == c.interrupt_enabled /\ t - last_t >= sixtieth_of_second_ns

\* run, second part: the interrupt after a sixtieth of a second of
\* simulated time, and the draw that follows it
RunInterrupt ==
    /\ status = "running" /\ at = "irq"
    /\ prev' = cpu
    /\ before' = last
    /\ IF interrupt_due(cpu, time, last_interrupt_time_ns)
       THEN \E oc \in builds(push_ovf(cpu)) :
               /\ overflow_checks' = oc
               /\ IF push_ovf(cpu) /\ oc = "on"
                  THEN /\ status' = "panicked"
                       /\ last' = Did("interrupt", 0, next_int, FALSE, 0)
                       /\ UNCHANGED <<cpu, last_interrupt_time_ns, frames, vectors, at,
                                      screen, interrupted>>
                  ELSE /\ cpu' = interrupt(cpu, next_int)
                       /\ last_interrupt_time_ns' = time
                       /\ frames' = frames + 1
                       /\ screen' = draw(interrupt(cpu, next_int).mem)
                       /\ interrupted' = note_interrupt(cpu, interrupt(cpu, next_int))
                       /\ vectors' = Append(vectors, next_int)
                       /\ at' = "poll"
                       /\ status' = status
                       /\ last' = Did("interrupt", 0, next_int, TRUE, 0)
       ELSE /\ last' = Did("nointerrupt", 0, 0, TRUE, 0)
            /\ at' = "poll"
            /\ UNCHANGED <<cpu, last_interrupt_time_ns, frames, vectors, status,
                           overflow_checks, screen, interrupted>>
    /\ UNCHANGED <<time, shiftx, shifty, shift_offset, i, next_int,
                   current_real_time, last_real_time, cpu0, written, polled>>

\* the sequences of at most n events
EventSeqs(n) == UNION {[1..k -> Events] : k \in 0..n}

\* the events the claims call a close event and a press of Escape
ExitEvent(ev) ==
    \/ ev.kind = "Closed"
    \/ ev.kind = "KeyboardInput" /\ ev.key = "Escape" /\ ev.state = "Pressed"

\* the poll whatever the real time since the last one
poll_due_always(now, last_t) == now - last_t >= 0

\* the condition of the poll in run
poll_due(now, last_t) == now - last_t >= sixtieth_of_second_ns

\* run, third part: the poll of the window events every sixtieth of a
\* second of real time
RunPoll ==
    /\ status = "running" /\ at = "poll"
    /\ prev' = cpu
    /\ before' = last
    /\ IF poll_due(current_real_time, last_real_time)
       THEN \E evs \in EventSeqs(MaxEvents) :
              LET r == poll_events(cpu.ports[1], evs)
              IN /\ last_real_time' = current_real_time
                 /\ cpu' = [cpu EXCEPT !.ports[1] = r.p1]
                 /\ status' = IF r.brk THEN "exited" ELSE status
                 /\ last' = Did("poll", 0, 0, TRUE, 0)
                 /\ polled' = [n |-> polled.n + 1,
                               since |-> current_real_time - last_real_time,
                               quit |-> \E k \in DOMAIN evs : ExitEvent(evs[k])]
       ELSE /\ last' = Did("nopoll", 0, 0, TRUE, 0)
            /\ polled' = [n |-> polled.n + 1,
                          since |-> current_real_time - last_real_time,
                          quit |-> FALSE]
            /\ UNCHANGED <<cpu, last_real_time, status>>
    /\ at' = "step"
    /\ UNCHANGED <<time, shiftx, shifty, shift_offset, i, last_interrupt_time_ns,
                   next_int, current_real_time, overflow_checks, frames, vectors,
                   cpu0, written, screen, interrupted>>

Next == RunStep \/ RunInterrupt \/ RunPoll

Spec == Init /\ [][Next]_vars

\* ------------------------------------------------- a CPU set up directly --

\* the opcodes Cpu::step implements
Implemented ==
    {0, 1, 2, 3, 4, 5, 6, 9, 10, 13, 14, 15, 17, 19, 24, 25, 26, 27, 31, 33, 35,
     36, 38, 39, 41, 49, 50, 53, 54, 55, 57, 58, 61, 62, 65, 66, 67, 77, 78, 86,
     87, 94, 95, 102, 103, 111, 119, 122, 123, 124, 126, 130, 167, 175, 192, 193,
     194, 195, 197, 198, 200, 201, 202, 205, 209, 210, 211, 213, 218, 219, 225,
     229, 230, 235, 241, 245, 251, 254}

\* the opcodes tried: the implemented ones, and HLT (0x76), DI (0xf3), 0x08
TestOps == Implemented \cup {118, 243, 8}

\* where the instruction is put
TestPcs == {0, 256}

\* its two operand bytes, low then high
TestOperands == {<<5, 0>>, <<52, 18>>}

TestSps == {9216, 0}

\* values of A, B, C, D, E, H, L
TestRegs ==
    {[a |-> 18, b |-> 52, c |-> 86, d |-> 120, e |-> 154, h |-> 32, l |-> 16],
     [a |-> 255, b |-> 254, c |-> 255, d |-> 1, e |-> 0, h |-> 255, l |-> 255]}

\* memory around the instruction: RET at the two operand addresses, two
\* bytes on the stack at 0x2400, 0xaa in the cells at (C << 8) | B and 0xbb
\* in the cells at (B << 8) | C of the two register files, and the
\* instruction itself
TestMem(op, p, opr) ==
    LET m1 == write(write(Memory_new, 5, 201), 4660, 201)
        m2 == write(write(m1, 9216, 52), 9217, 18)
        m3 == write(write(m2, 22068, 170), 65534, 170)
        m4 == write(write(m3, 13398, 187), 65279, 187)
    IN write(write(write(m4, p, op), p + 1, opr[1]), p + 2, opr[2])

TestCpu(op, p, opr, sp, z, cy, r) ==
    [Cpu_new EXCEPT !.pc = p, !.sp = sp, !.cc.z = z, !.cc.cy = cy,
                    !.a = r.a, !.b = r.b, !.c = r.c, !.d = r.d, !.e = r.e,
                    !.h = r.h, !.l = r.l,
                    !.mem = TestMem(op, p, opr)]

\* the CPUs of the unit tests before the step
test_stax_b ==
    [Cpu_new EXCEPT !.mem = write(write(Memory_new, 0, 2), 65534, 170),
                    !.b = 254, !.c = 255]

test_inx_b == [Cpu_new EXCEPT !.mem = write(Memory_new, 0, 3), !.b = 254, !.c = 255]

test_inr_b == [Cpu_new EXCEPT !.mem = write(Memory_new, 0, 4), !.b = 1]

test_inr_b_carry_zero == [Cpu_new EXCEPT !.mem = write(Memory_new, 0, 4), !.b = 255]

test_dcr_b == [Cpu_new EXCEPT !.mem = write(Memory_new, 0, 5), !.b = 2]

test_dcr_b_zero == [Cpu_new EXCEPT !.mem = write(Memory_new, 0, 5), !.b = 1]

test_nop == [Cpu_new EXCEPT !.mem = write(Memory_new, 0, 0)]

test_lxi_b ==
    [Cpu_new EXCEPT !.mem = write(write(write(Memory_new, 0, 1), 1, 254), 2, 255)]

test_mvi_b == [Cpu_new EXCEPT !.mem = write(write(Memory_new, 0, 6), 1, 238)]

UnitTests ==
    {test_stax_b, test_inx_b, test_inr_b, test_inr_b_carry_zero, test_dcr_b,
     test_dcr_b_zero, test_nop, test_lxi_b, test_mvi_b}

\* Cpu::new() with MVI A,0x01; ADI 0xff written at 0
mvi_then_adi ==
    [Cpu_new EXCEPT !.mem = write(write(write(write(Memory_new, 0, 62), 1, 1),
                                        2, 198), 3, 255)]

\* the values of A, and of the five flags, of the CPUs that start with a
\* PUSH PSW
TestAs == {0, 18, 255}

TestFlags == [z : {0, 1}, s : {0, 1}, p : {0, 1}, cy : {0, 1}, ac : {0, 1}, pad : {0}]

\* a CPU at two instructions in a row, with the bytes x and y on the stack
TestPair(ops, a, cc, sp, x, y) ==
    [Cpu_new EXCEPT !.a = a, !.cc = cc, !.sp = sp,
                    !.mem = write(write(write(write(Memory_new, sp, x),
                                              W16(sp + 1), y), 256, ops[1]),
                                  257, ops[2]),
                    !.pc = 256]

\* Cpu::new() with DAA written at 0 and A = 0x0a
daa_0a == [Cpu_new EXCEPT !.mem = write(Memory_new, 0, 39), !.a = 10]

\* the opcodes tried on registers that are all 0x00 or all 0xff: the INX, DCX,
\* INR and DCR arms
EdgeOps == {3, 4, 5, 13, 19, 27, 35, 36, 53, 61}

\* machines with a picture in memory: 0x01 at 0x2400; bytes in the second
\* column, in the middle and in the last cell of the video memory, and 0xff
\* in the cells right before and right after it; nothing
TestVideo ==
    {[Cpu_new EXCEPT !.mem = write(Memory_new, 9216, 1)],
     [Cpu_new EXCEPT !.mem = (9215 :> 255) @@ (9249 :> 2) @@ (12345 :> 165)
                             @@ (16383 :> 128) @@ (16384 :> 255)],
     Cpu_new}

\* Cpu::new() with fields assigned, as in the tests
InitCpu ==
    /\ \/ \E op \in TestOps, p \in TestPcs, opr \in TestOperands, sp \in TestSps,
             z \in {0, 1}, cy \in {0, 1}, r \in TestRegs :
               cpu = TestCpu(op, p, opr, sp, z, cy, r)
       \/ cpu \in UnitTests \cup {mvi_then_adi, daa_0a} \cup TestVideo
       \/ \E op \in EdgeOps, v \in {0, 255}, cy \in {0, 1} :
               cpu = TestCpu(op, 0, <<0, 0>>, 9216, 0, cy,
                             [a |-> v, b |-> v, c |-> v, d |-> v, e |-> v,
                              h |-> v, l |-> v])
       \/ \E a \in TestAs, cc \in TestFlags, sp \in TestSps :
               cpu = TestPair(<<245, 241>>, a, cc, sp, 0, 0)
       \/ \E x \in Byte : cpu = TestPair(<<241, 245>>, 0, ConditionCodes_new, 9216, x, 153)
    /\ overflow_checks = "unknown"
    /\ time = 0
    /\ shiftx = 0 /\ shifty = 0 /\ shift_offset = 0
    /\ i = 0
    /\ last_interrupt_time_ns = 0
    /\ next_int = 2
    /\ current_real_time = 0
    /\ last_real_time = 0
    /\ at = "test"
    /\ status = "running"
    /\ frames = 0
    /\ vectors = << >>
    /\ cpu0 = cpu
    /\ prev = cpu
    /\ last = NoOp
    /\ before = NoOp
    /\ written = [p2 |-> 0, p4 |-> 0, p4b |-> 0]
    /\ polled = NoPoll
    /\ screen = {}
    /\ interrupted = [pc |-> 0, sp |-> 0, hi |-> 0, lo |-> 0]

\* one call of a step function on the CPU, r its result
Emulate(kind, r) ==
    /\ status = "running" /\ at = "test"
    /\ i < MaxSteps
    /\ prev' = cpu
    /\ before' = last
    /\ \E oc \in builds(r.ovf) :
         /\ overflow_checks' = oc
         /\ IF r.fatal \/ (r.ovf /\ oc = "on")
            THEN /\ status' = "panicked"
                 /\ last' = Did(kind, read(cpu.mem, cpu.pc), 0, FALSE, 0)
                 /\ UNCHANGED <<cpu, shiftx, shifty, shift_offset, i, written>>
            ELSE /\ cpu' = r.cpu
                 /\ shiftx' = r.shiftx
                 /\ shifty' = r.shifty
                 /\ shift_offset' = r.shift_offset
                 /\ i' = i + 1
                 /\ status' = status
                 /\ written' = IF kind = "step" THEN note_out(written, cpu)
                                ELSE written
                 /\ last' = Did(kind, read(cpu.mem, cpu.pc), 0, TRUE, r.cycles)
    /\ UNCHANGED <<time, last_interrupt_time_ns, next_int, current_real_time,
                   last_real_time, at, frames, vectors, cpu0, polled, screen,
                   interrupted>>

\* cpu.step()
EmulateCpu ==
    LET r == Cpu_step(cpu)
    IN Emulate("cpu_step", [cpu |-> r.cpu, cycles |-> r.cycles, ovf |-> r.ovf,
                            fatal |-> r.fatal, shiftx |-> shiftx,
                            shifty |-> shifty, shift_offset |-> shift_offset])

\* machine.step()
EmulateMachine == Emulate("step", Machine_step(cpu, shiftx, shifty, shift_offset))

\* machine.interrupt(int), called directly
EmulateInterrupt ==
    /\ status = "running" /\ at = "test"
    /\ i < MaxSteps
    /\ prev' = cpu
    /\ before' = last
    /\ \E int \in {1, 2} :
         \E oc \in builds(push_ovf(cpu)) :
            /\ overflow_checks' = oc
            /\ IF push_ovf(cpu) /\ oc = "on"
               THEN /\ status' = "panicked"
                    /\ last' = Did("interrupt", 0, int, FALSE, 0)
                    /\ UNCHANGED <<cpu, i, interrupted>>
               ELSE /\ cpu' = interrupt(cpu, int)
                    /\ interrupted' = note_interrupt(cpu, interrupt(cpu, int))
                    /\ i' = i + 1
                    /\ status' = status
                    /\ last' = Did("interrupt", 0, int, TRUE, 0)
    /\ UNCHANGED <<time, shiftx, shifty, shift_offset, last_interrupt_time_ns,
                   next_int, current_real_time, last_real_time, at, frames,
                   vectors, cpu0, written, polled, screen>>

\* machine.draw(), called on a machine set up with a picture
EmulateDraw ==
    /\ status = "running" /\ at = "test"
    /\ i = 0 /\ frames = 0 /\ cpu \in TestVideo
    /\ prev' = cpu
    /\ before' = last
    /\ last' = Did("draw", 0, 0, TRUE, 0)
    /\ screen' = draw(cpu.mem)
    /\ frames' = frames + 1
    /\ UNCHANGED <<cpu, time, shiftx, shifty, shift_offset, i,
                   last_interrupt_time_ns, next_int, current_real_time,
                   last_real_time, at, status, overflow_checks, vectors, cpu0,
                   written, polled, interrupted>>

NextCpu == EmulateCpu \/ EmulateMachine \/ EmulateInterrupt \/ EmulateDraw

SpecCpu == InitCpu /\ [][NextCpu]_vars

\* the loop and the directly set up CPU together
SpecAll == (Init \/ InitCpu) /\ [][Next \/ NextCpu]_vars

\* ------------------------------------------------------------- claims ----

\* c and d agree on every register, on SP, on the flags and on the ports
SameRegs(c, d) ==
    /\ c.a = d.a /\ c.b = d.b /\ c.c = d.c /\ c.d = d.d /\ c.e = d.e
    /\ c.h = d.h /\ c.l = d.l
    /\ c.cc = d.cc /\ c.ports = d.ports

\* the memories m and n agree on every cell outside S
SameMemExcept(m, n, S) ==
    \A x \in ((DOMAIN m) \cup (DOMAIN n)) \ S : read(m, x) = read(n, x)

InterruptDelivered == last.kind = "interrupt" /\ last.done

\* C1: interrupt(n) with the latch on writes the high byte of PC at SP-1
\* and the low byte at SP-2, sets SP to SP-2 and PC to 8*n, and turns the
\* latch off; no register, flag or other memory cell changes.
C1_InterruptPushesPC ==
    (InterruptDelivered /\ prev.interrupt_enabled) =>
        /\ read(cpu.mem, W16(prev.sp + 65535)) = Hi(prev.pc)
        /\ read(cpu.mem, W16(prev.sp + 65534)) = Lo(prev.pc)
        /\ cpu.sp = W16(prev.sp + 65534)
        /\ cpu.pc = 8 * last.int
        /\ ~cpu.interrupt_enabled
        /\ SameRegs(cpu, prev)
        /\ SameMemExcept(cpu.mem, prev.mem, {W16(prev.sp + 65535), W16(prev.sp + 65534)})

C1_Witness ==
    /\ InterruptDelivered /\ prev.interrupt_enabled
    /\ Hi(prev.pc) # 0 /\ Lo(prev.pc) # 0 /\ Hi(prev.pc) # Lo(prev.pc)
    /\ cpu.pc = 16

\* C2: interrupt(n) with the latch off is a no-op: PC, SP, memory,
\* registers, flags and the latch are all unchanged.
C2_InterruptLatchOffNoOp ==
    (InterruptDelivered /\ ~prev.interrupt_enabled) => cpu = prev

\* C3: successive delivered interrupts alternate between vector 1 and
\* vector 2: no two consecutive delivered interrupts use the same vector.
C3_VectorsAlternate ==
    \A k \in 1..(Len(vectors) - 1) : vectors[k] # vectors[k + 1]

\* C4: whenever a step completes with the latch on and at least 1/120 s
\* (8,333,333 ns) of simulated time since the last delivered interrupt, an
\* interrupt is delivered before the next fetch.
C4_InterruptEveryHalfFrame ==
    ~(/\ last.kind = "nointerrupt"
      /\ cpu.interrupt_enabled
      /\ time - last_interrupt_time_ns >= 8333333)

\* C5: the framebuffer is redrawn after exactly the vector-2 interrupts, so
\* there is one redraw per two delivered interrupts.
C5_RedrawEverySecondInterrupt ==
    /\ frames = Cardinality({k \in 1..Len(vectors) : vectors[k] = 2})
    /\ 2 * frames <= Len(vectors) + 1

\* C6: the latch is off at reset, is turned on by a step that executes EI
\* and by nothing else, is turned off by a delivered interrupt and by
\* nothing else: no other instruction and no input event changes it.
C6_LatchTransitions ==
    /\ last.kind = "none" => ~cpu.interrupt_enabled
    /\ last.kind # "none" =>
         cpu.interrupt_enabled =
            IF last.kind \in {"step", "cpu_step"} /\ last.done /\ last.op = 251
            THEN TRUE
            ELSE IF InterruptDelivered THEN FALSE
            ELSE prev.interrupt_enabled

C6_Witness ==
    /\ Len(vectors) >= 1
    /\ last.kind = "poll"
    /\ cpu.ports[1] # prev.ports[1]
    /\ cpu.interrupt_enabled

\* the operations that are one call of a step function
IsStep(o) == o.kind \in {"step", "cpu_step"} /\ o.done

\* the length the disassembler gives the instruction of an opcode
InstrLen(op) ==
    IF op \in {6, 14, 38, 54, 62, 198, 211, 219, 230, 254} THEN 2
    ELSE IF op \in {1, 17, 33, 49, 50, 58, 194, 195, 202, 205, 210, 218} THEN 3
    ELSE 1

\* the conditional jumps and returns, and the flag and value they test
CondTaken(c, op) ==
    \/ op = 192 /\ c.cc.z = 0
    \/ op = 194 /\ c.cc.z = 0
    \/ op = 200 /\ c.cc.z = 1
    \/ op = 202 /\ c.cc.z = 1
    \/ op = 210 /\ c.cc.cy = 0
    \/ op = 218 /\ c.cc.cy = 1

\* the opcode is a jump, call or return that is taken in c
Taken(c, op) == op \in {195, 201, 205} \/ CondTaken(c, op)

\* the word with its low byte at SP and its high byte at SP+1
StackTop(c) == Pair(read(c.mem, W16(c.sp + 1)), read(c.mem, c.sp))

\* C7: a step of an implemented opcode that is not a taken jump, call or
\* return increases PC by the length of the instruction: 1, 2 or 3.
C7_PCAdvancesByLength ==
    (IsStep(last) /\ last.op \in Implemented /\ ~Taken(prev, last.op)) =>
        cpu.pc = W16(prev.pc + InstrLen(last.op))

\* C8: a taken conditional jump leaves PC equal to the address operand; a
\* taken conditional return leaves PC equal to the word popped, and SP
\* increased by 2.
C8_TakenBranchTarget ==
    (IsStep(last) /\ CondTaken(prev, last.op)) =>
        IF last.op \in {192, 200}
        THEN cpu.pc = StackTop(prev) /\ cpu.sp = W16(prev.sp + 2)
        ELSE cpu.pc = addr16(prev)

\* a CPU set up at a call site has executed the CALL there and then the RET
\* at the address called, and nothing else
CallThenRet ==
    /\ at = "test" /\ i = 2
    /\ IsStep(before) /\ before.op = 205
    /\ IsStep(last) /\ last.op = 201
    /\ prev.pc = addr16(cpu0)

\* C9: CALL addr at p with SP = s, then RET at addr, leaves SP = s and
\* PC = p + 3, when no address wraps.
C9_CallRetRoundTrip ==
    (CallThenRet /\ cpu0.sp >= 2 /\ cpu0.pc + 3 <= 65535) =>
        (cpu.sp = cpu0.sp /\ cpu.pc = cpu0.pc + 3)

C9_Witness ==
    /\ CallThenRet
    /\ cpu0.pc = 256 /\ cpu0.sp = 9216 /\ addr16(cpu0) = 4660
    /\ cpu.pc = 259 /\ cpu.sp = 9216

\* the flag byte of the 8080: S Z 0 AC 0 P 1 CY
FlagByte(cc) == 128 * cc.s + 64 * cc.z + 16 * cc.ac + 4 * cc.p + 2 + cc.cy

\* the operation pushed the bytes hi and lo: hi is at SP-1, lo at SP-2, and
\* SP is SP-2
Pushed(hi, lo) ==
    /\ read(cpu.mem, W16(prev.sp + 65535)) = hi
    /\ read(cpu.mem, W16(prev.sp + 65534)) = lo
    /\ cpu.sp = W16(prev.sp + 65534)

\* the operation popped hi and lo: lo is the byte at SP, hi the byte at
\* SP+1, and SP is SP+2
Popped(hi, lo) ==
    /\ lo = read(prev.mem, prev.sp)
    /\ hi = read(prev.mem, W16(prev.sp + 1))
    /\ cpu.sp = W16(prev.sp + 2)

\* C10: PUSH B/D/H, PUSH PSW, CALL and interrupt write the high byte at SP-1
\* and the low byte at SP-2 and set SP to SP-2; POP B/D/H, POP PSW, RET and
\* the taken conditional returns read the low byte at SP and the high byte
\* at SP+1 and set SP to SP+2 (a conditional return leaves PC at the word
\* read or one past it); CALL 0x0005 at PC=0 with SP=0x2400 writes 0x03 at
\* 0x23FE and 0x00 at 0x23FF and leaves SP=0x23FE.
C10_PushPopLayout ==
    /\ (IsStep(last) /\ last.op = 197) => Pushed(prev.b, prev.c)
    /\ (IsStep(last) /\ last.op = 213) => Pushed(prev.d, prev.e)
    /\ (IsStep(last) /\ last.op = 229) => Pushed(prev.h, prev.l)
    /\ (IsStep(last) /\ last.op = 245) => Pushed(prev.a, FlagByte(prev.cc))
    /\ (IsStep(last) /\ last.op = 205) =>
            Pushed(Hi(W16(prev.pc + 3)), Lo(W16(prev.pc + 3)))
    /\ InterruptDelivered => Pushed(Hi(prev.pc), Lo(prev.pc))
    /\ (IsStep(last) /\ last.op = 193) => Popped(cpu.b, cpu.c)
    /\ (IsStep(last) /\ last.op = 209) => Popped(cpu.d, cpu.e)
    /\ (IsStep(last) /\ last.op = 225) => Popped(cpu.h, cpu.l)
    /\ (IsStep(last) /\ last.op = 241) =>
            /\ Popped(cpu.a, read(prev.mem, prev.sp))
            /\ cpu.cc = [prev.cc EXCEPT !.s = Bit(read(prev.mem, prev.sp), 7),
                                        !.z = Bit(read(prev.mem, prev.sp), 6),
                                        !.ac = Bit(read(prev.mem, prev.sp), 4),
                                        !.p = Bit(read(prev.mem, prev.sp), 2),
                                        !.cy = Bit(read(prev.mem, prev.sp), 0)]
    /\ (IsStep(last) /\ last.op = 201) => Popped(Hi(cpu.pc), Lo(cpu.pc))
    /\ (IsStep(last) /\ last.op \in {192, 200} /\ CondTaken(prev, last.op)) =>
            /\ cpu.sp = W16(prev.sp + 2)
            /\ cpu.pc \in {StackTop(prev), W16(StackTop(prev) + 1)}
    /\ (IsStep(last) /\ last.op = 205 /\ prev.pc = 0 /\ prev.sp = 9216
          /\ addr16(prev) = 5) =>
            /\ read(cpu.mem, 9214) = 3 /\ read(cpu.mem, 9215) = 0
            /\ cpu.sp = 9214

\* the example: CALL 0x0005 at PC=0 with SP=0x2400
C10_Witness ==
    /\ IsStep(last) /\ last.op = 205 /\ prev.pc = 0 /\ prev.sp = 9216
    /\ addr16(prev) = 5 /\ cpu.sp = 9214 /\ read(cpu.mem, 9214) = 3

\* the opcodes of PUSH, POP, CALL, RET and the conditional returns that
\* Cpu::step implements
StackOps == {192, 193, 197, 200, 201, 205, 209, 213, 225, 229, 241, 245}

\* C11: a step changes SP only if the instruction is a PUSH, POP, CALL, RET
\* or conditional return, and then by exactly +2 or -2; every other
\* instruction leaves SP unchanged.
C11_SPOnlyStackOps ==
    (IsStep(last) /\ cpu.sp # prev.sp) =>
        /\ last.op \in StackOps
        /\ cpu.sp \in {W16(prev.sp + 2), W16(prev.sp + 65534)}

\* the last operation was a PUSH, a CALL or an interrupt, completed or not
IsPush(o) ==
    \/ o.kind \in {"step", "cpu_step"} /\ o.op \in {197, 205, 213, 229, 245}
    \/ o.kind = "interrupt"

\* the two bytes the operation o pushes when it starts on c: high, low
PushBytes(c, o) ==
    CASE o.kind = "interrupt" -> <<Hi(c.pc), Lo(c.pc)>>
      [] o.op = 197 -> <<c.b, c.c>>
      [] o.op = 213 -> <<c.d, c.e>>
      [] o.op = 229 -> <<c.h, c.l>>
      [] o.op = 245 -> <<c.a, FlagByte(c.cc)>>
      [] OTHER -> <<Hi(W16(c.pc + 3)), Lo(W16(c.pc + 3))>>

\* C12: a push (PUSH, CALL or interrupt) with SP = 0x0000 does not fail: it
\* writes the high byte at 0xFFFF and the low byte at 0xFFFE and leaves
\* SP = 0xFFFE.
C12_PushAtZeroWraps ==
    (IsPush(last) /\ prev.sp = 0) =>
        /\ last.done
        /\ read(cpu.mem, 65535) = PushBytes(prev, last)[1]
        /\ read(cpu.mem, 65534) = PushBytes(prev, last)[2]
        /\ cpu.sp = 65534

\* a call of a step function, completed or not
IsStepCall(o) == o.kind \in {"step", "cpu_step"}

\* C13: DI (0xf3) completes, turns the latch off, advances PC by 1 and
\* changes nothing else.
C13_DIClearsLatch ==
    (IsStepCall(last) /\ last.op = 243) =>
        /\ last.done
        /\ cpu = [prev EXCEPT !.interrupt_enabled = FALSE, !.pc = W16(prev.pc + 1)]

\* C14: HLT (0x76) completes and halts the CPU: every step after it, until
\* an interrupt, returns 1 cycle and changes no state.
C14_HaltedUntilInterrupt ==
    /\ (IsStepCall(last) /\ last.op = 118) => (last.done /\ status = "running")
    /\ (IsStepCall(before) /\ before.op = 118 /\ IsStepCall(last)) =>
            (last.done /\ last.cycles = 1 /\ cpu = prev)

\* C15: a step that fetches an opcode without an arm in Cpu::step aborts the
\* program (the failed step is the last operation) and has changed no
\* register, flag, memory cell, port, PC or SP.
C15_UnimplementedAborts ==
    /\ (IsStepCall(last) /\ last.op \notin Implemented) =>
            (~last.done /\ status = "panicked" /\ cpu = prev)
    /\ status = "panicked" => ~last.done

C15_Witness ==
    /\ IsStepCall(last) /\ last.op = 8
    /\ status = "panicked"
    /\ prev.pc = 256 /\ prev.a = 255 /\ prev.sp = 9216

\* C16: every step that completes returns a cycle count within 4..17: 4
\* for register-only operations, 7 for register-memory operations, 10 for
\* LXI, JMP, MVI M, PUSH and POP, 11 or 5 for a conditional return taken or
\* not, 13 for LDA and STA, 17 for CALL, 10 for the host's IN and OUT.
C16_DocumentedCycles ==
    IsStep(last) =>
        /\ last.cycles \in 4..17
        /\ last.op \in {0, 15, 31, 55, 130, 167, 175, 235, 251} => last.cycles = 4
        /\ last.op \in {2, 10, 26, 78, 86, 94, 102, 119, 126} => last.cycles = 7
        /\ last.op \in {1, 17, 33, 49, 54, 195} => last.cycles = 10
        /\ last.op \in {193, 197, 209, 213, 225, 229, 241, 245} => last.cycles = 10
        /\ last.op \in {192, 200} =>
                last.cycles = IF CondTaken(prev, last.op) THEN 11 ELSE 5
        /\ last.op \in {50, 58} => last.cycles = 13
        /\ last.op = 205 => last.cycles = 17
        /\ (last.kind = "step" /\ last.op \in {211, 219}) => last.cycles = 10

\* a completed IN or OUT of the host step on port n
HostIO(o, c, opcode, n) ==
    o.kind = "step" /\ o.done /\ o.op = opcode /\ opnd(c, 1) = n

\* ((y << 8 | x) >> (8 - the low 3 bits of v)) & 0xff, by arithmetic
ShiftResult(y, x, v) == ((256 * y + x) \div (2 ^ (8 - (v % 8)))) % 256

\* C17: after any sequence of host OUT 2 and OUT 4, IN 3 loads A with
\* ((shifty << 8 | shiftx) >> (8 - shift_offset)) & 0xff, shift_offset the
\* low 3 bits of the last value written to port 2, shiftx the last value
\* written to port 4, shifty the one before it (each 0 if none).
C17_ShiftRegisterRead ==
    HostIO(last, prev, 219, 3) =>
        cpu.a = ShiftResult(written.p4b, written.p4, written.p2)

C17_Witness ==
    /\ HostIO(last, prev, 219, 3)
    /\ written = [p2 |-> 11, p4 |-> 205, p4b |-> 171]
    /\ cpu.a = 94

\* C18: the host's IN n for a port n without an override (n not 0, 1, 2
\* or 3) loads A with the CPU's port[n], whatever A held before.
C18_HostInReadsPort ==
    \A n \in 4..7 : HostIO(last, prev, 219, n) => cpu.a = prev.ports[n]

\* C19: the host's IN 1 loads A with the input port byte, port 1: a bit a
\* key press has set, and no release has cleared yet, is set in A.
C19_In1ReadsInputPort ==
    HostIO(last, prev, 219, 1) => cpu.a = prev.ports[1]

\* the bit of port 1 of a key: FIRE (the C key) bit 4, RIGHT bit 5, LEFT bit 6
KeyMask(key) == CASE key = "C" -> 16 [] key = "Right" -> 32 [] key = "Left" -> 64

\* the event ev of one of the keys in keys sets (press) or clears (release)
\* the bit of its key in the byte p and changes no other bit
KeyEventEffect(p, keys) ==
    \A ev \in Events :
        (ev.kind = "KeyboardInput" /\ ev.key \in keys) =>
            handle_event(p, ev).p1 =
                IF ev.state = "Pressed" THEN Or8(p, KeyMask(ev.key))
                ELSE And8(p, 255 - KeyMask(ev.key))

\* C20: processing a key event changes exactly one bit of port 1, set on
\* press and cleared on release (FIRE, the C key, bit 4; RIGHT bit 5; LEFT
\* bit 6); all other CPU state is unchanged.
C20_KeyEventBits ==
    last.kind = "poll" =>
        /\ cpu = [prev EXCEPT !.ports[1] = cpu.ports[1]]
        /\ KeyEventEffect(prev.ports[1], {"C", "Right", "Left"})

\* C21: when the loop drains a close event or a press of Escape it exits at
\* once: the poll is the last thing run does, no instruction and no
\* interrupt follow it, and only the input port can differ from the CPU
\* before the poll.  A poll that drains neither (a release of Escape, any
\* other key, any other event) leaves the loop running.
C21_ExitOnCloseOrEscape ==
    /\ last.kind = "poll" => (status = "exited" <=> polled.quit)
    /\ status = "exited" =>
          /\ last.kind = "poll"
          /\ i = polled.n
          /\ Len(vectors) = frames
          /\ cpu = [prev EXCEPT !.ports[1] = cpu.ports[1]]

\* a poll after some instructions drained an exit event and the loop is left
C21_Witness ==
    /\ last.kind = "poll" /\ polled.quit /\ status = "exited"
    /\ i > 2 /\ before.kind = "nointerrupt"

TwoSteps(first, second) ==
    /\ at = "test" /\ i = 2
    /\ IsStep(before) /\ before.op = first
    /\ IsStep(last) /\ last.op = second

\* C23: PUSH PSW and then POP PSW leave A, the flags Z, S, P, CY and AC and
\* SP as they were before the PUSH PSW, whatever A and the flags.
C23_PushPopPSWRoundTrip ==
    TwoSteps(245, 241) =>
        /\ cpu.a = cpu0.a
        /\ cpu.cc.z = cpu0.cc.z /\ cpu.cc.s = cpu0.cc.s /\ cpu.cc.p = cpu0.cc.p
        /\ cpu.cc.cy = cpu0.cc.cy /\ cpu.cc.ac = cpu0.cc.ac
        /\ cpu.sp = cpu0.sp

\* the pair has run with A = 0xff, Z, P and AC set and S and CY clear
C23_Witness ==
    /\ TwoSteps(245, 241)
    /\ cpu0.a = 255 /\ cpu0.sp = 9216
    /\ cpu0.cc = [z |-> 1, s |-> 0, p |-> 1, cy |-> 0, ac |-> 1, pad |-> 0]
    /\ cpu.a = 255 /\ cpu.cc = cpu0.cc /\ cpu.sp = 9216 /\ cpu.pc = 258
    /\ read(cpu.mem, 9214) = 86

\* the flags byte POP PSW read at the start, and the one PUSH PSW wrote
\* after it
PswRead == read(cpu0.mem, cpu0.sp)

PswWritten == read(cpu.mem, cpu.sp)

\* C24 as stated: POP PSW of the flags byte x and then PUSH PSW write the
\* flags byte x | 0b0000_0010.
C24_PackUnpackAsStated == TwoSteps(241, 245) => PswWritten = Or8(PswRead, 2)

\* C24 as amended: POP PSW of the flags byte x and then PUSH PSW write
\* (x & 0b1101_0111) | 0b0000_0010: bits 3 and 5 of x are not kept.
C24_PackUnpack == TwoSteps(241, 245) => PswWritten = Or8(And8(PswRead, 215), 2)

\* the pair has run on the flags byte 0xff and wrote 0xd7
C24_Witness ==
    /\ TwoSteps(241, 245)
    /\ PswRead = 255 /\ PswWritten = 215
    /\ cpu.sp = cpu0.sp /\ cpu.a = 153

\* the 8080's value of a register pair of c: (B<<8)|C, (D<<8)|E, (H<<8)|L
BC(c) == 256 * c.b + c.c

DE(c) == 256 * c.d + c.e

HL(c) == 256 * c.h + c.l

\* C25: the instructions that use BC, DE or HL as a 16-bit value take the
\* first register as the high byte: INX and DCX add and subtract 1 modulo
\* 65536, DAD adds the pair to HL, STAX B stores A at BC, LDAX loads A from
\* the cell at the pair, MOV A,M and MOV M,A address the cell at HL.
C25_PairsHighLow ==
    IsStep(last) =>
        /\ last.op = 3 => BC(cpu) = W16(BC(prev) + 1)
        /\ last.op = 19 => DE(cpu) = W16(DE(prev) + 1)
        /\ last.op = 27 => DE(cpu) = W16(DE(prev) + 65535)
        /\ last.op = 35 => HL(cpu) = W16(HL(prev) + 1)
        /\ last.op = 9 => HL(cpu) = W16(HL(prev) + BC(prev))
        /\ last.op = 25 => HL(cpu) = W16(HL(prev) + DE(prev))
        /\ last.op = 41 => HL(cpu) = W16(HL(prev) + HL(prev))
        /\ last.op = 2 => read(cpu.mem, BC(prev)) = prev.a
        /\ last.op = 10 => cpu.a = read(prev.mem, BC(prev))
        /\ last.op = 26 => cpu.a = read(prev.mem, DE(prev))
        /\ last.op = 126 => cpu.a = read(prev.mem, HL(prev))
        /\ last.op = 119 => read(cpu.mem, HL(prev)) = prev.a

\* C26: STAX B (0x02) writes A into the cell at (B<<8)|C and leaves A, B, C
\* and the flags as they were.
C26_StaxBStoresA ==
    (IsStep(last) /\ last.op = 2) =>
        /\ cpu.mem = write(prev.mem, BC(prev), prev.a)
        /\ cpu.a = prev.a /\ cpu.b = prev.b /\ cpu.c = prev.c
        /\ cpu.cc = prev.cc

\* one completed step from the CPU a unit test sets up
TestRan(c) == at = "test" /\ i = 1 /\ cpu0 = c /\ IsStep(last)

C28_InxBLowByteB ==
    /\ TestRan(test_inx_b) => cpu = [test_inx_b EXCEPT !.b = 255, !.c = 255, !.pc = 1]
    /\ (IsStep(last) /\ last.op = 3) =>
          LET v == W16(256 * prev.c + prev.b + 1)
          IN cpu = [prev EXCEPT !.b = v % 256, !.c = v \div 256,
                                !.pc = W16(prev.pc + 1)]

\* the step of test_inx_b has run
C28_Witness ==
    /\ TestRan(test_inx_b)
    /\ last.op = 3 /\ prev.b = 254 /\ cpu.b = 255 /\ cpu.c = 255 /\ cpu.pc = 1
    /\ cpu.cc = ConditionCodes_new

\* the INR and DCR arms of Cpu::step: INR B, DCR B, DCR C, INR H, DCR M, DCR A
IncDecOps == {4, 5, 13, 36, 53, 61}

FlagOps == IncDecOps \cup {130, 167, 175, 198, 230, 254}

\* the 8-bit result of the instruction op that took the CPU c to d
FlagResult(op, c, d) ==
    CASE op \in {4, 5} -> d.b
      [] op = 13 -> d.c
      [] op = 36 -> d.h
      [] op = 53 -> read(d.mem, HL(c))
      [] op = 254 -> W8(c.a + 256 - opnd(c, 1))
      [] OTHER -> d.a

\* x has an even number of 1 bits
EvenParity(x) ==
    (Bit(x, 0) + Bit(x, 1) + Bit(x, 2) + Bit(x, 3) + Bit(x, 4) + Bit(x, 5)
       + Bit(x, 6) + Bit(x, 7)) % 2 = 0

\* C31: after INR, DCR, ADD, ADI, ANA, XRA, ANI and CPI, Z = 1 iff the
\* result is 0, S is bit 7 of the result and P = 1 iff the result has an
\* even number of 1 bits; CPI's result is (A - operand) mod 256, it leaves A
\* as it was and sets CY = 1 iff A < operand.
C31_FlagsFromResult ==
    (IsStep(last) /\ last.op \in FlagOps) =>
        LET r == FlagResult(last.op, prev, cpu)
        IN /\ cpu.cc.z = 1 <=> r = 0
           /\ cpu.cc.s = Bit(r, 7)
           /\ cpu.cc.p = 1 <=> EvenParity(r)
           /\ last.op = 254 =>
                 /\ cpu.a = prev.a
                 /\ cpu.cc.cy = 1 <=> prev.a < opnd(prev, 1)

\* C32: the additive instructions set AC to the carry from bit 3 into bit 4:
\* INR B and INR H by the low nibble of the register being 0xf, ADD D and
\* ADI by the sum of the two low nibbles passing 0xf.  INR B from reset with
\* B = 0xff gives B = 0x00, Z = 1, S = 0, P = 1, AC = 1; MVI A,0x01 and then
\* ADI 0xff from reset give A = 0x00, Z = 1, CY = 1, P = 1, AC = 1, PC = 4.
C32_AuxiliaryCarry ==
    /\ (IsStep(last) /\ last.op = 4) => (cpu.cc.ac = 1 <=> prev.b % 16 = 15)
    /\ (IsStep(last) /\ last.op = 36) => (cpu.cc.ac = 1 <=> prev.h % 16 = 15)
    /\ (IsStep(last) /\ last.op = 130) =>
          (cpu.cc.ac = 1 <=> (prev.a % 16) + (prev.d % 16) > 15)
    /\ (IsStep(last) /\ last.op = 198) =>
          (cpu.cc.ac = 1 <=> (prev.a % 16) + (opnd(prev, 1) % 16) > 15)
    /\ TestRan(test_inr_b_carry_zero) =>
          /\ cpu.b = 0 /\ cpu.cc.z = 1 /\ cpu.cc.s = 0 /\ cpu.cc.p = 1
          /\ cpu.cc.ac = 1
    /\ (TwoSteps(62, 198) /\ cpu0 = mvi_then_adi) =>
          /\ cpu.a = 0 /\ cpu.cc.z = 1 /\ cpu.cc.cy = 1 /\ cpu.cc.p = 1
          /\ cpu.cc.ac = 1 /\ cpu.pc = 4

\* C33: RRC (0x0f) rotates A right by one bit and RAR (0x1f) shifts A right
\* with the old CY coming in at bit 7; both leave the old bit 0 of A in CY,
\* also when it is 0, and change no other flag.
C33_RotatesRight ==
    /\ (IsStep(last) /\ last.op = 15) =>
          /\ cpu.a = 128 * (prev.a % 2) + (prev.a \div 2)
          /\ cpu.cc = [prev.cc EXCEPT !.cy = prev.a % 2]
    /\ (IsStep(last) /\ last.op = 31) =>
          /\ cpu.a = 128 * prev.cc.cy + (prev.a \div 2)
          /\ cpu.cc = [prev.cc EXCEPT !.cy = prev.a % 2]

\* the 8080's operand of DAD B, DAD D, DAD H and DAD SP
DadOperand(op, c) ==
    CASE op = 9 -> BC(c) [] op = 25 -> DE(c) [] op = 41 -> HL(c) [] OTHER -> c.sp

\* C34: DAD rp sets HL to (HL + rp) mod 65536 and CY to the carry out of bit
\* 15 and changes nothing else but PC: no other flag, no other register,
\* and DAD SP not SP.
C34_DadAddsToHL ==
    (IsStep(last) /\ last.op \in {9, 25, 41, 57}) =>
        LET sum == HL(prev) + DadOperand(last.op, prev)
        IN cpu = [prev EXCEPT !.h = Hi(W16(sum)), !.l = Lo(W16(sum)),
                              !.cc.cy = IF sum > 65535 THEN 1 ELSE 0,
                              !.pc = W16(prev.pc + 1)]

\* the 8080's decimal adjust of A = a with the flags cc: 6 is added when the
\* low nibble is over 9 or AC is set, then 0x60 when the high nibble is over
\* 9 or CY is set
DaaLow(a, cc) == IF a % 16 > 9 \/ cc.ac = 1 THEN a + 6 ELSE a

DaaHigh(a, cc) ==
    IF (DaaLow(a, cc) \div 16) % 16 > 9 \/ cc.cy = 1 THEN (DaaLow(a, cc) % 256) + 96
    ELSE DaaLow(a, cc) % 256

\* C35: DAA (0x27) follows the 8080 rule: A becomes the adjusted value, CY
\* is set when adding 0x60 overflows bit 7, and Z, S and P are those of the
\* final A in every case; A = 0x0a with the flags clear becomes 0x10.
\* Stated where the first addition stays within a byte.
C35_DecimalAdjust ==
    /\ (IsStep(last) /\ last.op = 39 /\ DaaLow(prev.a, prev.cc) <= 255) =>
          LET r == DaaHigh(prev.a, prev.cc)
          IN /\ cpu.a = r % 256
             /\ r > 255 => cpu.cc.cy = 1
             /\ cpu.cc.z = 1 <=> r % 256 = 0
             /\ cpu.cc.s = Bit(r % 256, 7)
             /\ cpu.cc.p = 1 <=> EvenParity(r % 256)
    /\ TestRan(daa_0a) => cpu.a = 16

\* C36: NOP changes only PC (by 1) and returns 4 cycles; MVI B,d8 changes
\* only B (to d8) and PC (by 2); LXI B,d16 changes only B (to the second
\* operand byte), C (to the first) and PC (by 3).  Flags, SP, memory, ports,
\* the latch and the other registers stay, as test_nop, test_mvi_b and
\* test_lxi_b assert.
C36_NopMviLxiFrame ==
    /\ (IsStep(last) /\ last.op = 0) =>
          (cpu = [prev EXCEPT !.pc = W16(prev.pc + 1)] /\ last.cycles = 4)
    /\ (IsStep(last) /\ last.op = 6) =>
          cpu = [prev EXCEPT !.b = opnd(prev, 1), !.pc = W16(prev.pc + 2)]
    /\ (IsStep(last) /\ last.op = 1) =>
          cpu = [prev EXCEPT !.b = opnd(prev, 2), !.c = opnd(prev, 1),
                             !.pc = W16(prev.pc + 3)]
    /\ TestRan(test_nop) => cpu = [test_nop EXCEPT !.pc = 1]
    /\ TestRan(test_mvi_b) => cpu = [test_mvi_b EXCEPT !.b = 238, !.pc = 2]
    /\ TestRan(test_lxi_b) => cpu = [test_lxi_b EXCEPT !.b = 255, !.c = 254, !.pc = 3]

\* the step of test_lxi_b has run
C36_Witness ==
    /\ TestRan(test_lxi_b)
    /\ last.op = 1 /\ cpu.b = 255 /\ cpu.c = 254 /\ cpu.pc = 3 /\ cpu.sp = 0

\* the cells of mem in the video memory 0x2400..0x3fff
Vram(mem) == [a \in (DOMAIN mem) \cap (9216..16383) |-> mem[a]]

\* the white pixels of the 224x256 frame of the video memory vram: (x, y)
\* is white iff bit (y & 7) of the cell 0x2400 + x*32 + (y>>3) is set
WhitePixels(vram) ==
    {px \in (0..223) \X (0..255) :
        Bit(read(vram, 9216 + 32 * px[1] + (px[2] \div 8)), px[2] % 8) = 1}

\* a draw has just been made: by a call of draw, or by run after an interrupt
Drawn == last.kind = "draw" \/ (last.kind = "interrupt" /\ last.done /\ at = "poll")

\* C37: draw makes pixel (x, y) of the 224x256 frame opaque white iff bit
\* (y & 7) of mem[0x2400 + x*32 + (y>>3)] is set and opaque black otherwise;
\* the frame depends on the cells 0x2400..0x3fff alone, and draw changes no
\* CPU state.  0x01 at 0x2400 and nothing else gives one white pixel, (0, 0).
C37_DrawDecodesVideoMemory ==
    /\ Drawn => screen = WhitePixels(Vram(cpu.mem))
    /\ last.kind = "draw" => cpu = prev
    /\ (last.kind = "draw" /\ Vram(cpu.mem) = (9216 :> 1)) => screen = {<<0, 0>>}

\* the draw of 0x01 at 0x2400 has been made
C37_Witness ==
    /\ last.kind = "draw" /\ frames = 1
    /\ cpu.mem = (9216 :> 1)
    /\ screen = {<<0, 0>>}

\* a RET has run with SP at two below the SP of the last interrupt the main
\* loop delivered and the two bytes the interrupt pushed still there
HandlerReturned ==
    /\ at # "test" /\ Len(vectors) > 0
    /\ IsStep(last) /\ last.op = 201
    /\ prev.sp = W16(interrupted.sp + 65534)
    /\ read(prev.mem, prev.sp) = interrupted.lo
    /\ read(prev.mem, W16(prev.sp + 1)) = interrupted.hi

\* C38: when the main loop delivers an interrupt with PC = p and SP = s and
\* a RET later runs with SP = s - 2 and the two pushed bytes as they were,
\* the RET leaves PC = p and SP = s: the interrupted stream goes on with the
\* instruction it was about to execute.
C38_InterruptRetResumes ==
    HandlerReturned => (cpu.pc = interrupted.pc /\ cpu.sp = interrupted.sp)

\* the RET of the handler at 0x0011 has returned into the loop at 0x0159
C38_Witness ==
    /\ HandlerReturned
    /\ prev.pc = 17
    /\ interrupted.sp = 9216 /\ interrupted.pc = 345
    /\ cpu.pc = 345 /\ cpu.sp = 9216

\* C39: in every reachable state of the host shift_offset is in 0..7, so
\* the shift amount 8 - shift_offset of IN 3 is in 1..8, and the value a
\* completed host IN 3 loads into A is a byte, 0..255.
C39_ShiftOffsetInRange ==
    /\ shift_offset \in 0..7
    /\ (8 - shift_offset) \in 1..8
    /\ HostIO(last, prev, 219, 3) => cpu.a \in 0..255

C39_Witness ==
    /\ HostIO(last, prev, 219, 3)
    /\ written.p2 = 11 /\ shift_offset = 3
    /\ cpu.a = 94

\* a step that indexes the port array of the CPU with its operand byte: OUT of
\* either step function, and IN of Cpu::step (the host's IN matches on the
\* port and indexes nothing)
IndexesPorts(o) ==
    IsStepCall(o) /\ (o.op = 211 \/ (o.op = 219 /\ o.kind = "cpu_step"))

\* C40: every IN and OUT completes whatever its port operand byte, and no
\* step indexes the 8-entry port array outside 0..7.  (Instructions in the
\* last two bytes of memory, whose PC arithmetic overflows, are left out.)
C40_PortIOCompletes ==
    (IsStepCall(last) /\ last.op \in {211, 219} /\ prev.pc < 65534) =>
        /\ last.done
        /\ IndexesPorts(last) => opnd(prev, 1) \in 0..7

====
